---- MODULE Spec2Model ----
(***************************************************************************)
(* The create-pool page (frontend/src/app/create-pool/page.tsx) as a state *)
(* machine: the component's state hooks are the variables, every event     *)
(* handler and every settlement of a pending promise is one action.        *)
(*                                                                         *)
(* Strings are sequences of one-character strings, so that trim, length,   *)
(* includes, parseInt and parseFloat are computed character by character. *)
(* A nullable value is the empty tuple (null) or a one-element tuple.      *)
(* The variable event records the last event, what it did and the value a  *)
(* gateway answered or the clock showed; connects and                      *)
(* callbacks count the open connect flows, pending holds the outstanding   *)
(* createPool calls.                                                       *)
(***************************************************************************)
EXTENDS Integers, Sequences, FiniteSets, TLC

VARIABLES publicKey, isCheckingWallet, formData, submissionState,
          errorMessage, txHash, poolId, connects, callbacks, pending,
          event

vars == <<publicKey, isCheckingWallet, formData, submissionState,
          errorMessage, txHash, poolId, connects, callbacks, pending,
          event>>

(***************************************************************************)
(* Bounds of the model.                                                    *)
(***************************************************************************)
\* Connect flows that may be open at once (awaiting the user or the key).
MaxConnects == 2
\* Date.now() / 1000 is drawn from 0..MaxNow at each accepted submit.
MaxNow == 1

(***************************************************************************)
(* Program constants.                                                      *)
(***************************************************************************)
MaxDescriptionLength == 500
MaxExternalUrlLength == 200
MaxImageHashLength == 100

(***************************************************************************)
(* String literals of the page.                                            *)
(***************************************************************************)
Null == <<>>
Some(v) == <<v>>
EmptyString == <<>>

MsgWallet ==
    <<"P","l","e","a","s","e"," ","c","o","n","n","e","c","t"," ","y","o","u",
      "r"," ","w","a","l","l","e","t"," ","f","i","r","s","t">>

MsgName ==
    <<"P","o","o","l"," ","n","a","m","e"," ","i","s"," ","r","e","q","u","i",
      "r","e","d">>

MsgDescRequired ==
    <<"D","e","s","c","r","i","p","t","i","o","n"," ","i","s"," ","r","e","q",
      "u","i","r","e","d">>

MsgDescLength ==
    <<"D","e","s","c","r","i","p","t","i","o","n"," ","m","u","s","t"," ","b",
      "e"," ","5","0","0"," ","c","h","a","r","a","c","t","e","r","s"," ","o",
      "r"," ","l","e","s","s">>

MsgUrlRequired ==
    <<"E","x","t","e","r","n","a","l"," ","U","R","L"," ","i","s"," ","r","e",
      "q","u","i","r","e","d">>

MsgUrlLength ==
    <<"E","x","t","e","r","n","a","l"," ","U","R","L"," ","m","u","s","t"," ",
      "b","e"," ","2","0","0"," ","c","h","a","r","a","c","t","e","r","s"," ",
      "o","r"," ","l","e","s","s">>

MsgHashRequired ==
    <<"I","m","a","g","e"," ","h","a","s","h"," ","i","s"," ","r","e","q","u",
      "i","r","e","d">>

MsgHashLength ==
    <<"I","m","a","g","e"," ","h","a","s","h"," ","m","u","s","t"," ","b","e",
      " ","1","0","0"," ","c","h","a","r","a","c","t","e","r","s"," ","o","r",
      " ","l","e","s","s">>

MsgAmount ==
    <<"T","a","r","g","e","t"," ","a","m","o","u","n","t"," ","m","u","s","t",
      " ","b","e"," ","g","r","e","a","t","e","r"," ","t","h","a","n"," ",
      "0">>

MsgDuration ==
    <<"D","u","r","a","t","i","o","n"," ","m","u","s","t"," ","b","e"," ","g",
      "r","e","a","t","e","r"," ","t","h","a","n"," ","0"," ","d","a","y",
      "s">>

UserRejected ==
    <<"U","s","e","r"," ","r","e","j","e","c","t","e","d">>

MsgRejected ==
    <<"T","r","a","n","s","a","c","t","i","o","n"," ","w","a","s"," ","r","e",
      "j","e","c","t","e","d","."," ","P","l","e","a","s","e"," ","t","r","y",
      " ","a","g","a","i","n",".">>

SimulationFailed ==
    <<"S","i","m","u","l","a","t","i","o","n"," ","f","a","i","l","e","d">>

MsgSimulation ==
    <<"T","r","a","n","s","a","c","t","i","o","n"," ","s","i","m","u","l","a",
      "t","i","o","n"," ","f","a","i","l","e","d","."," ","P","l","e","a","s",
      "e"," ","c","h","e","c","k"," ","y","o","u","r"," ","i","n","p","u","t",
      "s",".">>

TransactionFailed ==
    <<"T","r","a","n","s","a","c","t","i","o","n"," ","f","a","i","l","e",
      "d">>

PrefixFailed ==
    <<"T","r","a","n","s","a","c","t","i","o","n"," ","f","a","i","l","e","d",
      ":"," ">>

MsgDefault ==
    <<"F","a","i","l","e","d"," ","t","o"," ","c","r","e","a","t","e"," ","p",
      "o","o","l","."," ","P","l","e","a","s","e"," ","t","r","y"," ","a","g",
      "a","i","n",".">>

RawSigner ==
    <<"U","s","e","r"," ","r","e","j","e","c","t","e","d"," ","b","y"," ","s",
      "i","g","n","e","r">>

RawLower ==
    <<"u","s","e","r"," ","r","e","j","e","c","t","e","d">>

RawSim ==
    <<"S","i","m","u","l","a","t","i","o","n"," ","f","a","i","l","e","d",":",
      " ","b","a","d"," ","a","u","t","h">>

RawTx ==
    <<"T","r","a","n","s","a","c","t","i","o","n"," ","f","a","i","l","e",
      "d">>

RawTxUser ==
    <<"T","r","a","n","s","a","c","t","i","o","n"," ","f","a","i","l","e","d",
      ":"," ","U","s","e","r"," ","r","e","j","e","c","t","e","d">>

RawTxSim ==
    <<"T","r","a","n","s","a","c","t","i","o","n"," ","f","a","i","l","e","d",
      " ","a","f","t","e","r"," ","S","i","m","u","l","a","t","i","o","n"," ",
      "f","a","i","l","e","d">>

RawOther ==
    <<"t","i","m","e","o","u","t">>

(***************************************************************************)
(* JavaScript string and number primitives the page uses.                  *)
(***************************************************************************)
\* A string of n copies of the character c.
Rep(c, n) == [i \in 1..n |-> c]

WhiteSpace == {" ", "\t", "\n"}

\* String.prototype.trim: the string without leading and trailing white space.
Trim(s) ==
    LET keep == {i \in 1..Len(s) : s[i] \notin WhiteSpace}
    IN  IF keep = {} THEN EmptyString
        ELSE LET first == CHOOSE i \in keep : \A j \in keep : i <= j
                 last  == CHOOSE i \in keep : \A j \in keep : j <= i
             IN  SubSeq(s, first, last)

\* String.prototype.includes: sub occurs in s as a contiguous run, compared
\* character by character (case-sensitive).
Includes(s, sub) ==
    \E i \in 0..(Len(s) - Len(sub)) : SubSeq(s, i + 1, i + Len(sub)) = sub

\* JavaScript truthiness of a string: every string but "" is truthy.
Truthy(s) == Len(s) > 0

DigitChars == <<"0", "1", "2", "3", "4", "5", "6", "7", "8", "9">>

IsDigit(c) == \E i \in 1..Len(DigitChars) : DigitChars[i] = c

DigitValue(c) == (CHOOSE i \in 1..Len(DigitChars) : DigitChars[i] = c) - 1

\* The number of consecutive digits of s starting at index from.
DigitRun(s, from) ==
    LET stop == {i \in from..Len(s) : ~IsDigit(s[i])}
    IN  IF stop = {} THEN Len(s) - from + 1
        ELSE (CHOOSE i \in stop : \A j \in stop : i <= j) - from

\* The value of the decimal digits s[from .. from + n - 1].
RECURSIVE DigitsValue(_, _, _)
DigitsValue(s, from, n) ==
    IF n = 0 THEN 0
    ELSE 10 * DigitsValue(s, from, n - 1) + DigitValue(s[from + n - 1])

\* The index of the first character of s that is not white space
\* (Len(s) + 1 when there is none).
SkipWhiteSpace(s) ==
    LET keep == {i \in 1..Len(s) : s[i] \notin WhiteSpace}
    IN  IF keep = {} THEN Len(s) + 1
        ELSE CHOOSE i \in keep : \A j \in keep : i <= j

\* A JavaScript number, as far as the page computes with it: NaN, or the
\* decimal (-1)^neg * mant / 10^frac.
NaN == [nan |-> TRUE, neg |-> FALSE, mant |-> 0, frac |-> 0]

Number(neg, mant, frac) ==
    [nan |-> FALSE, neg |-> neg, mant |-> mant, frac |-> frac]

\* parseInt(s) with the default radix, on strings over white space, signs,
\* decimal digits, "." and letters other than a radix prefix: leading
\* white space is skipped, an optional sign is read, then the longest run
\* of digits; no digit gives NaN.
parseInt(s) ==
    LET a    == SkipWhiteSpace(s)
        sgn  == a <= Len(s) /\ s[a] \in {"+", "-"}
        b    == IF sgn THEN a + 1 ELSE a
        n    == DigitRun(s, b)
    IN  IF n = 0 THEN NaN
        ELSE Number(sgn /\ s[a] = "-", DigitsValue(s, b, n), 0)

\* parseFloat, were the fraction dropped as parseInt drops it.
parseFloatWithoutFraction(s) == parseInt(s)

\* parseFloat(s) on the same strings (no exponent part, no "Infinity"):
\* white space, sign, digits, an optional "." and more digits; at least one
\* digit is needed.
parseFloat(s) ==
    LET a    == SkipWhiteSpace(s)
        sgn  == a <= Len(s) /\ s[a] \in {"+", "-"}
        b    == IF sgn THEN a + 1 ELSE a
        n1   == DigitRun(s, b)
        dot  == b + n1 <= Len(s) /\ s[b + n1] = "."
        n2   == IF dot THEN DigitRun(s, b + n1 + 1) ELSE 0
        mant == DigitsValue(s, b, n1) * (10 ^ n2)
                  + (IF dot THEN DigitsValue(s, b + n1 + 1, n2) ELSE 0)
    IN  IF n1 + n2 = 0 THEN NaN
        ELSE Number(sgn /\ s[a] = "-", mant, n2)

\* x <= 0 on JavaScript numbers: false for NaN, true for -0 and 0.
LessOrEqualZero(x) == ~x.nan /\ (x.neg \/ x.mant = 0)

\* x > 0 on JavaScript numbers: false for NaN.
GreaterThanZero(x) == ~x.nan /\ ~x.neg /\ x.mant > 0

\* a + b * k for a non-negative integer a, an integer-valued number b and
\* a positive integer k; NaN when b is NaN.
PlusTimes(a, b, k) ==
    IF b.nan THEN NaN
    ELSE LET v == a + (IF b.neg THEN 0 - b.mant ELSE b.mant) * k
         IN  Number(v < 0, IF v < 0 THEN 0 - v ELSE v, 0)

(***************************************************************************)
(* Inputs: what the user can type and what the gateways can answer.       *)
(***************************************************************************)
FieldNames ==
    {"name", "description", "externalUrl", "imageHash", "targetAmount",
     "durationDays"}

\* The values a field edit can set, per field.
FieldValues(field) ==
    CASE field = "name" -> {EmptyString, <<" ">>, <<"P">>}
      [] field = "description" -> {EmptyString, <<"d">>}
      [] field = "externalUrl" -> {EmptyString, <<"u">>}
      [] field = "imageHash" -> {EmptyString, <<"h">>}
      [] field = "targetAmount" ->
            {EmptyString, <<"-", "5">>, <<"1", "0">>, <<"a", "b", "c">>}
      [] field = "durationDays" ->
            {EmptyString, <<"0">>, <<"3", "0">>, <<"a", "b", "c">>}

\* The identities getPublicKey can resolve with: none, or a public key.
PublicKeys == {Null, Some("GA")}

\* The values createPool can resolve with.
CreatePoolResults ==
    {[txHash |-> <<"t", "x", "1">>, poolId |-> 5],
     [txHash |-> <<"t", "x", "2">>, poolId |-> 6]}

\* The values createPool can fail with: an error with a message, an object
\* with no message property, null and undefined.
CreatePoolErrors ==
    {[kind |-> "error", message |-> m] :
        m \in {EmptyString, RawSigner, RawLower, RawSim, RawTx, RawTxUser,
               RawTxSim, RawOther}}
    \cup {[kind |-> k, message |-> EmptyString] :
            k \in {"object", "null", "undefined"}}

(***************************************************************************)
(* The component.                                                          *)
(***************************************************************************)
\* useState initial values, with the wallet query of the mount effect
\* outstanding.
Init ==
    /\ publicKey = Null
    /\ isCheckingWallet = TRUE
    /\ formData = [f \in FieldNames |-> EmptyString]
    /\ submissionState = "idle"
    /\ errorMessage = EmptyString
    /\ txHash = EmptyString
    /\ poolId = Null
    /\ connects = 0
    /\ callbacks = 0
    /\ pending = <<>>
    /\ event = [op |-> "mount", arg |-> Null]

\* What the render shows for the current state.
PageLoaded == ~isCheckingWallet
ConnectRendered == PageLoaded /\ publicKey = Null
ErrorPanelRendered == PageLoaded /\ submissionState = "error"

\* FormRendered, were the form left on the page after success.
FormRenderedAfterSuccess == PageLoaded /\ publicKey # Null

FormRendered == PageLoaded /\ submissionState # "success" /\ publicKey # Null
InputsDisabled == submissionState = "submitting"

\* SubmitDisabled, were the button left enabled while submitting.
SubmitDisabledOnlyWithoutWallet == publicKey = Null

SubmitDisabled == submissionState = "submitting" \/ publicKey = Null

\* validateForm: the first failing check's message, or valid.
Invalid(msg) == [valid |-> FALSE, message |-> msg]

\* validateForm without the targetAmount check.
validateFormWithoutAmount(form) ==
    IF ~Truthy(Trim(form.name)) THEN Invalid(MsgName)
    ELSE IF ~Truthy(Trim(form.description)) THEN Invalid(MsgDescRequired)
    ELSE IF Len(form.description) > MaxDescriptionLength
        THEN Invalid(MsgDescLength)
    ELSE IF ~Truthy(Trim(form.externalUrl)) THEN Invalid(MsgUrlRequired)
    ELSE IF Len(form.externalUrl) > MaxExternalUrlLength
        THEN Invalid(MsgUrlLength)
    ELSE IF ~Truthy(Trim(form.imageHash)) THEN Invalid(MsgHashRequired)
    ELSE IF Len(form.imageHash) > MaxImageHashLength
        THEN Invalid(MsgHashLength)
    ELSE IF ~Truthy(form.durationDays)
            \/ LessOrEqualZero(parseInt(form.durationDays))
        THEN Invalid(MsgDuration)
    ELSE [valid |-> TRUE, message |-> EmptyString]

\* validateForm, were the amount and duration checks made first.
validateFormNumbersFirst(form) ==
    IF ~Truthy(form.targetAmount)
            \/ LessOrEqualZero(parseFloat(form.targetAmount))
        THEN Invalid(MsgAmount)
    ELSE IF ~Truthy(form.durationDays)
            \/ LessOrEqualZero(parseInt(form.durationDays))
        THEN Invalid(MsgDuration)
    ELSE IF ~Truthy(Trim(form.name)) THEN Invalid(MsgName)
    ELSE IF ~Truthy(Trim(form.description)) THEN Invalid(MsgDescRequired)
    ELSE IF Len(form.description) > MaxDescriptionLength
        THEN Invalid(MsgDescLength)
    ELSE IF ~Truthy(Trim(form.externalUrl)) THEN Invalid(MsgUrlRequired)
    ELSE IF Len(form.externalUrl) > MaxExternalUrlLength
        THEN Invalid(MsgUrlLength)
    ELSE IF ~Truthy(Trim(form.imageHash)) THEN Invalid(MsgHashRequired)
    ELSE IF Len(form.imageHash) > MaxImageHashLength
        THEN Invalid(MsgHashLength)
    ELSE [valid |-> TRUE, message |-> EmptyString]

\* validateForm, were the length limits exclusive (>= for >).
validateFormExclusiveLimits(form) ==
    IF ~Truthy(Trim(form.name)) THEN Invalid(MsgName)
    ELSE IF ~Truthy(Trim(form.description)) THEN Invalid(MsgDescRequired)
    ELSE IF Len(form.description) >= MaxDescriptionLength
        THEN Invalid(MsgDescLength)
    ELSE IF ~Truthy(Trim(form.externalUrl)) THEN Invalid(MsgUrlRequired)
    ELSE IF Len(form.externalUrl) >= MaxExternalUrlLength
        THEN Invalid(MsgUrlLength)
    ELSE IF ~Truthy(Trim(form.imageHash)) THEN Invalid(MsgHashRequired)
    ELSE IF Len(form.imageHash) >= MaxImageHashLength
        THEN Invalid(MsgHashLength)
    ELSE IF ~Truthy(form.targetAmount)
            \/ LessOrEqualZero(parseFloat(form.targetAmount))
        THEN Invalid(MsgAmount)
    ELSE IF ~Truthy(form.durationDays)
            \/ LessOrEqualZero(parseInt(form.durationDays))
        THEN Invalid(MsgDuration)
    ELSE [valid |-> TRUE, message |-> EmptyString]

validateForm(form) ==
    IF ~Truthy(Trim(form.name)) THEN Invalid(MsgName)
    ELSE IF ~Truthy(Trim(form.description)) THEN Invalid(MsgDescRequired)
    ELSE IF Len(form.description) > MaxDescriptionLength
        THEN Invalid(MsgDescLength)
    ELSE IF ~Truthy(Trim(form.externalUrl)) THEN Invalid(MsgUrlRequired)
    ELSE IF Len(form.externalUrl) > MaxExternalUrlLength
        THEN Invalid(MsgUrlLength)
    ELSE IF ~Truthy(Trim(form.imageHash)) THEN Invalid(MsgHashRequired)
    ELSE IF Len(form.imageHash) > MaxImageHashLength
        THEN Invalid(MsgHashLength)
    ELSE IF ~Truthy(form.targetAmount)
            \/ LessOrEqualZero(parseFloat(form.targetAmount))
        THEN Invalid(MsgAmount)
    ELSE IF ~Truthy(form.durationDays)
            \/ LessOrEqualZero(parseInt(form.durationDays))
        THEN Invalid(MsgDuration)
    ELSE [valid |-> TRUE, message |-> EmptyString]

\* CreatePoolRequest, were the duration taken in minutes.
CreatePoolRequestInMinutes(form, now) ==
    [name |-> form.name,
     description |-> form.description,
     externalUrl |-> form.externalUrl,
     imageHash |-> form.imageHash,
     targetAmount |-> form.targetAmount,
     deadline |-> PlusTimes(now, parseInt(form.durationDays), 24 * 60)]

\* CreatePoolRequest, were name and description taken from each other.
CreatePoolRequestSwapped(form, now) ==
    [name |-> form.description,
     description |-> form.name,
     externalUrl |-> form.externalUrl,
     imageHash |-> form.imageHash,
     targetAmount |-> form.targetAmount,
     deadline |-> PlusTimes(now, parseInt(form.durationDays), 24 * 60 * 60)]

\* The request handleSubmit passes to createPool at unix time now.
CreatePoolRequest(form, now) ==
    [name |-> form.name,
     description |-> form.description,
     externalUrl |-> form.externalUrl,
     imageHash |-> form.imageHash,
     targetAmount |-> form.targetAmount,
     deadline |-> PlusTimes(now, parseInt(form.durationDays), 24 * 60 * 60)]

\* handleSubmit, were a validation failure to enter the error state.
handleSubmitInvalidIsError(now) ==
    IF publicKey = Null
    THEN /\ errorMessage' = MsgWallet
         /\ UNCHANGED <<submissionState, pending>>
    ELSE IF ~validateForm(formData).valid
    THEN /\ errorMessage' = validateForm(formData).message
         /\ submissionState' = "error"
         /\ UNCHANGED pending
    ELSE /\ submissionState' = "submitting"
         /\ errorMessage' = EmptyString
         /\ pending' = Append(pending, CreatePoolRequest(formData, now))

\* handleSubmit, were the message not emptied when a submission begins.
handleSubmitKeepsMessage(now) ==
    IF publicKey = Null
    THEN /\ errorMessage' = MsgWallet
         /\ UNCHANGED <<submissionState, pending>>
    ELSE IF ~validateForm(formData).valid
    THEN /\ errorMessage' = validateForm(formData).message
         /\ UNCHANGED <<submissionState, pending>>
    ELSE /\ submissionState' = "submitting"
         /\ UNCHANGED errorMessage
         /\ pending' = Append(pending, CreatePoolRequest(formData, now))

\* handleSubmit up to its await: the wallet gate, the validation gate, then
\* the state change and the createPool call.
handleSubmit(now) ==
    IF publicKey = Null
    THEN /\ errorMessage' = MsgWallet
         /\ UNCHANGED <<submissionState, pending>>
    ELSE IF ~validateForm(formData).valid
    THEN /\ errorMessage' = validateForm(formData).message
         /\ UNCHANGED <<submissionState, pending>>
    ELSE /\ submissionState' = "submitting"
         /\ errorMessage' = EmptyString
         /\ pending' = Append(pending, CreatePoolRequest(formData, now))

\* catchMessage, were "Transaction failed" tested before "User rejected".
catchMessageFailedFirst(error, current) ==
    IF error.kind \in {"null", "undefined"} THEN current
    ELSE LET hasMessage == error.kind = "error"
             message == error.message
         IN  IF hasMessage /\ Includes(message, TransactionFailed)
             THEN PrefixFailed \o message
             ELSE IF hasMessage /\ Includes(message, UserRejected)
             THEN MsgRejected
             ELSE IF hasMessage /\ Includes(message, SimulationFailed)
             THEN MsgSimulation
             ELSE IF hasMessage /\ Truthy(message) THEN message
             ELSE MsgDefault

\* The message the catch block of handleSubmit stores for a thrown value;
\* reading .message of null or undefined throws, and the stored message
\* stays as it was.
catchMessage(error, current) ==
    IF error.kind \in {"null", "undefined"} THEN current
    ELSE LET hasMessage == error.kind = "error"
             message == error.message
         IN  IF hasMessage /\ Includes(message, UserRejected)
             THEN MsgRejected
             ELSE IF hasMessage /\ Includes(message, SimulationFailed)
             THEN MsgSimulation
             ELSE IF hasMessage /\ Includes(message, TransactionFailed)
             THEN PrefixFailed \o message
             ELSE IF hasMessage /\ Truthy(message) THEN message
             ELSE MsgDefault

RemoveAt(seq, i) == SubSeq(seq, 1, i - 1) \o SubSeq(seq, i + 1, Len(seq))

(***************************************************************************)
(* Actions.                                                                *)
(***************************************************************************)
\* CheckWallet, were the loading state ended without the key stored.
CheckWalletDropsKey(key) ==
    /\ isCheckingWallet
    /\ isCheckingWallet' = FALSE
    /\ event' = [op |-> "checkWallet", arg |-> key]
    /\ UNCHANGED <<publicKey, formData, submissionState, errorMessage, txHash,
                   poolId, connects, callbacks, pending>>

\* checkWallet: the getPublicKey call of the mount effect resolves.
CheckWallet(key) ==
    /\ isCheckingWallet
    /\ publicKey' = key
    /\ isCheckingWallet' = FALSE
    /\ event' = [op |-> "checkWallet", arg |-> key]
    /\ UNCHANGED <<formData, submissionState, errorMessage, txHash, poolId,
                   connects, callbacks, pending>>

\* handleConnectWallet: the user presses Connect Wallet, which is on the
\* page only while no identity is held.
ConnectWallet ==
    /\ connects + callbacks < MaxConnects
    /\ event' = [op |-> "connect",
                  arg |-> IF ConnectRendered THEN "opened" ELSE "ignored"]
    /\ connects' = IF ConnectRendered THEN connects + 1 ELSE connects
    /\ UNCHANGED <<publicKey, isCheckingWallet, formData, submissionState,
                   errorMessage, txHash, poolId, callbacks, pending>>

\* The user approves in the wallet: connect invokes the callback, which
\* awaits getPublicKey.
ConnectApproved ==
    /\ connects > 0
    /\ connects' = connects - 1
    /\ callbacks' = callbacks + 1
    /\ event' = [op |-> "approved", arg |-> Null]
    /\ UNCHANGED <<publicKey, isCheckingWallet, formData, submissionState,
                   errorMessage, txHash, poolId, pending>>

\* The user rejects or closes the wallet dialog: the callback never runs.
ConnectCancelled ==
    /\ connects > 0
    /\ connects' = connects - 1
    /\ event' = [op |-> "cancelled", arg |-> Null]
    /\ UNCHANGED <<publicKey, isCheckingWallet, formData, submissionState,
                   errorMessage, txHash, poolId, callbacks, pending>>

\* The getPublicKey call of a connect callback resolves.
ConnectCallback(key) ==
    /\ callbacks > 0
    /\ callbacks' = callbacks - 1
    /\ publicKey' = key
    /\ event' = [op |-> "connected", arg |-> key]
    /\ UNCHANGED <<isCheckingWallet, formData, submissionState, errorMessage,
                   txHash, poolId, connects, pending>>

\* handleInputChange: the user edits a field of the form; the inputs are on
\* the page while the form is, and disabled while submitting.
InputChange(field, value) ==
    /\ event' = [op |-> "input",
                  arg |-> IF FormRendered /\ ~InputsDisabled
                          THEN "applied" ELSE "ignored"]
    /\ formData' = IF FormRendered /\ ~InputsDisabled
                   THEN [formData EXCEPT ![field] = value]
                   ELSE formData
    /\ UNCHANGED <<publicKey, isCheckingWallet, submissionState, errorMessage,
                   txHash, poolId, connects, callbacks, pending>>

\* Which way a submit goes: not on the page or disabled, stopped at the
\* wallet gate, stopped by validation, or accepted.
SubmitOutcome ==
    IF ~(FormRendered /\ ~SubmitDisabled) THEN "ignored"
    ELSE IF publicKey = Null THEN "wallet"
    ELSE IF ~validateForm(formData).valid THEN "invalid"
    ELSE "accepted"

\* The user submits the form: handleSubmit runs when the form is on the
\* page and its submit button is not disabled.
Submit(now) ==
    /\ event' = [op |-> "submit", arg |-> SubmitOutcome,
                  now |-> IF SubmitOutcome = "accepted"
                          THEN Some(now) ELSE Null]
    /\ IF FormRendered /\ ~SubmitDisabled
       THEN handleSubmit(now)
       ELSE UNCHANGED <<submissionState, errorMessage, pending>>
    /\ UNCHANGED <<publicKey, isCheckingWallet, formData, txHash, poolId,
                   connects, callbacks>>

\* A createPool call resolves: handleSubmit resumes after its await.
CreatePoolResolved(i, result) ==
    /\ i \in 1..Len(pending)
    /\ pending' = RemoveAt(pending, i)
    /\ txHash' = result.txHash
    /\ poolId' = Some(result.poolId)
    /\ submissionState' = "success"
    /\ event' = [op |-> "resolved", arg |-> result]
    /\ UNCHANGED <<publicKey, isCheckingWallet, formData, errorMessage,
                   connects, callbacks>>

\* CreatePoolFailed, were the failure to leave the state as it is.
CreatePoolFailedStaysSubmitting(i, error) ==
    /\ i \in 1..Len(pending)
    /\ pending' = RemoveAt(pending, i)
    /\ errorMessage' = catchMessage(error, errorMessage)
    /\ event' = [op |-> "failed", arg |-> error]
    /\ UNCHANGED <<publicKey, isCheckingWallet, formData, submissionState,
                   txHash, poolId, connects, callbacks>>

\* CreatePoolFailed, were a failed call made again by itself.
CreatePoolFailedRetries(i, error) ==
    /\ i \in 1..Len(pending)
    /\ pending' = Append(RemoveAt(pending, i), pending[i])
    /\ event' = [op |-> "failed", arg |-> error]
    /\ UNCHANGED <<publicKey, isCheckingWallet, formData, submissionState,
                   errorMessage, txHash, poolId, connects, callbacks>>

\* A createPool call fails: the catch block of handleSubmit runs.
CreatePoolFailed(i, error) ==
    /\ i \in 1..Len(pending)
    /\ pending' = RemoveAt(pending, i)
    /\ submissionState' = "error"
    /\ errorMessage' = catchMessage(error, errorMessage)
    /\ event' = [op |-> "failed", arg |-> error]
    /\ UNCHANGED <<publicKey, isCheckingWallet, formData, txHash, poolId,
                   connects, callbacks>>

\* TryAgain, were it to reset the form as well.
TryAgainResetsForm ==
    /\ event' = [op |-> "tryAgain",
                  arg |-> IF ErrorPanelRendered THEN "reset" ELSE "ignored"]
    /\ IF ErrorPanelRendered
       THEN /\ submissionState' = "idle"
            /\ errorMessage' = EmptyString
            /\ formData' = [f \in FieldNames |-> EmptyString]
       ELSE UNCHANGED <<submissionState, errorMessage, formData>>
    /\ UNCHANGED <<publicKey, isCheckingWallet, txHash, poolId, connects,
                   callbacks, pending>>

\* The user presses Try Again, which is on the page in the error state.
TryAgain ==
    /\ event' = [op |-> "tryAgain",
                  arg |-> IF ErrorPanelRendered THEN "reset" ELSE "ignored"]
    /\ IF ErrorPanelRendered
       THEN /\ submissionState' = "idle"
            /\ errorMessage' = EmptyString
       ELSE UNCHANGED <<submissionState, errorMessage>>
    /\ UNCHANGED <<publicKey, isCheckingWallet, formData, txHash, poolId,
                   connects, callbacks, pending>>

Next ==
    \/ \E key \in PublicKeys : CheckWallet(key)
    \/ ConnectWallet
    \/ ConnectApproved
    \/ ConnectCancelled
    \/ \E key \in PublicKeys : ConnectCallback(key)
    \/ \E field \in FieldNames : \E value \in FieldValues(field) :
          InputChange(field, value)
    \/ \E now \in 0..MaxNow : Submit(now)
    \/ \E i \in 1..Len(pending), result \in CreatePoolResults :
          CreatePoolResolved(i, result)
    \/ \E i \in 1..Len(pending), error \in CreatePoolErrors :
          CreatePoolFailed(i, error)
    \/ TryAgain

Spec == Init /\ [][Next]_vars

\* An outstanding createPool call settles: it resolves or it fails.
Settle ==
    \E i \in 1..Len(pending) :
        \/ \E result \in CreatePoolResults : CreatePoolResolved(i, result)
        \/ \E error \in CreatePoolErrors : CreatePoolFailed(i, error)

\* The page with every createPool call settling in the end.
FairSpec == Spec /\ WF_vars(Settle)

(***************************************************************************)
(* validateForm on its own: the form is drawn from strings at and around   *)
(* the length limits and the number formats, and validateForm is applied   *)
(* to it once, as handleSubmit applies it with a wallet connected.         *)
(***************************************************************************)
ValidationForms ==
    [name : {EmptyString, <<" ">>, <<"P">>},
     description :
        {EmptyString, <<"d">>, Rep("d", MaxDescriptionLength),
         Rep("d", MaxDescriptionLength + 1),
         Rep(" ", MaxDescriptionLength + 1)},
     externalUrl :
        {EmptyString, <<"u">>, Rep("u", MaxExternalUrlLength),
         Rep("u", MaxExternalUrlLength + 1)},
     imageHash :
        {EmptyString, <<"h">>, Rep("h", MaxImageHashLength),
         Rep("h", MaxImageHashLength + 1)},
     targetAmount :
        {EmptyString, <<"0">>, <<"-", "5">>,
         <<"0", ".", "0", "0", "0", "0", "0", "0", "1">>, <<"1", "0">>,
         <<"a", "b", "c">>},
     durationDays :
        {EmptyString, <<"0">>, <<"-", "1">>, <<"3", "0">>, <<"1", ".", "5">>,
         <<"a", "b", "c">>}]

InitValidation ==
    /\ publicKey = Some("GA")
    /\ isCheckingWallet = FALSE
    /\ formData \in ValidationForms
    /\ submissionState = "idle"
    /\ errorMessage = EmptyString
    /\ txHash = EmptyString
    /\ poolId = Null
    /\ connects = 0
    /\ callbacks = 0
    /\ pending = <<>>
    /\ event = [op |-> "form", arg |-> Null]

\* validateForm() as handleSubmit calls it: false with the message set, or
\* true with the message left alone.
Validate ==
    /\ event.op = "form"
    /\ event' = [op |-> "validate",
                  arg |-> IF validateForm(formData).valid
                          THEN "valid" ELSE "invalid"]
    /\ errorMessage' = IF validateForm(formData).valid
                       THEN errorMessage
                       ELSE validateForm(formData).message
    /\ UNCHANGED <<publicKey, isCheckingWallet, formData, submissionState,
                   txHash, poolId, connects, callbacks, pending>>

NextValidation == Validate

SpecValidation == InitValidation /\ [][NextValidation]_vars

(***************************************************************************)
(* The validation rules and the error classes as the specification lists   *)
(* them, stated apart from validateForm and the catch block.               *)
(***************************************************************************)
Blank(s) == \A i \in 1..Len(s) : s[i] \in WhiteSpace

RuleViolated(i, form) ==
    CASE i = 1 -> Blank(form.name)
      [] i = 2 -> Blank(form.description)
      [] i = 3 -> Len(form.description) >= MaxDescriptionLength + 1
      [] i = 4 -> Blank(form.externalUrl)
      [] i = 5 -> Len(form.externalUrl) >= MaxExternalUrlLength + 1
      [] i = 6 -> Blank(form.imageHash)
      [] i = 7 -> Len(form.imageHash) >= MaxImageHashLength + 1
      [] i = 8 -> \/ form.targetAmount = EmptyString
                  \/ ~parseFloat(form.targetAmount).nan
                       /\ ~GreaterThanZero(parseFloat(form.targetAmount))
      [] i = 9 -> \/ form.durationDays = EmptyString
                  \/ ~parseInt(form.durationDays).nan
                       /\ ~GreaterThanZero(parseInt(form.durationDays))

RuleMessages ==
    <<MsgName, MsgDescRequired, MsgDescLength, MsgUrlRequired, MsgUrlLength,
      MsgHashRequired, MsgHashLength, MsgAmount, MsgDuration>>

Rules == 1..Len(RuleMessages)

PassesAllRules(form) == \A i \in Rules : ~RuleViolated(i, form)

FirstViolatedRule(form) ==
    CHOOSE i \in Rules :
        RuleViolated(i, form) /\ \A j \in 1..(i - 1) : ~RuleViolated(j, form)

\* A form of FieldValues that passes every rule.
ValidForm ==
    [name |-> <<"P">>, description |-> <<"d">>, externalUrl |-> <<"u">>,
     imageHash |-> <<"h">>, targetAmount |-> <<"1", "0">>,
     durationDays |-> <<"3", "0">>]

\* Every field of the form but one holds its value of ValidForm.
OthersValid(form, field) ==
    \A f \in FieldNames \ {field} : form[f] = ValidForm[f]

Validated == event.op = "validate"
Accepted == event.op = "validate" /\ event.arg = "valid"
RejectedWith(msg) ==
    event.op = "validate" /\ event.arg = "invalid" /\ errorMessage = msg

\* The user's own steps: Try Again, a field edit, a submit.
UserNext ==
    \/ TryAgain
    \/ \E field \in FieldNames : \E value \in FieldValues(field) :
          InputChange(field, value)
    \/ \E now \in 0..MaxNow : Submit(now)

\* How far the page is from submitting by the user's steps alone: one
\* edit per field that differs from ValidForm, then the submit.
Distance ==
    IF submissionState = "submitting" THEN 0
    ELSE 1 + Cardinality({f \in FieldNames : formData[f] # ValidForm[f]})

UserProgress == UserNext /\ Distance' < Distance

ClassifiedMessage(m) ==
    IF Includes(m, UserRejected) THEN MsgRejected
    ELSE IF Includes(m, SimulationFailed) THEN MsgSimulation
    ELSE IF Includes(m, TransactionFailed) THEN PrefixFailed \o m
    ELSE IF m # EmptyString THEN m
    ELSE MsgDefault

(***************************************************************************)
(* Claims.                                                                 *)
(***************************************************************************)
\* C1: at most one createPool call is outstanding at any time, and a submit
\* made while the state is submitting invokes createPool zero times and
\* leaves the submission state, the stored result, the error message and
\* the outstanding calls as they were.
C1_SubmitWhileSubmittingIsNoOp ==
    /\ [](Len(pending) <= 1)
    /\ [][(submissionState = "submitting" /\ event'.op = "submit")
            => UNCHANGED <<submissionState, txHash, poolId, errorMessage,
                           pending>>]_vars

\* C1 witness: a submit was made while a call was outstanding and ignored.
C1_Witness ==
    /\ event.op = "submit"
    /\ event.arg = "ignored"
    /\ submissionState = "submitting"
    /\ Len(pending) = 1

\* C2: a step invokes createPool only if it is a submit of a form that
\* passes all nine validation rules, and the call carries that form.
C2_CreatePoolOnlyForValidForm ==
    [][Len(pending') > Len(pending)
        => /\ event'.op = "submit"
           /\ PassesAllRules(formData)
           /\ \E now \in 0..MaxNow :
                 pending' = Append(pending, CreatePoolRequest(formData, now))]_vars

\* C2 witness: targetAmount "-5" with every other field valid was
\* submitted and no call was made.
C2_Witness ==
    /\ event.op = "submit"
    /\ event.arg = "invalid"
    /\ formData = [ValidForm EXCEPT !.targetAmount = <<"-", "5">>]
    /\ errorMessage = MsgAmount
    /\ pending = <<>>

C4_ValidationRejectionFrame ==
    [][(PageLoaded /\ publicKey # Null /\ event'.op = "submit"
          /\ ~PassesAllRules(formData))
        => /\ UNCHANGED <<submissionState, txHash, poolId, formData, pending>>
           /\ errorMessage' = RuleMessages[FirstViolatedRule(formData)]]_vars

\* C4 witness: a submit was rejected by validation after an earlier
\* submission had failed.
C4_Witness ==
    /\ event.op = "submit"
    /\ event.arg = "invalid"
    /\ publicKey # Null
    /\ submissionState = "error"
    /\ errorMessage = MsgDuration

\* C5 (as claimed): every change of the submission state is idle to
\* submitting by a submit, submitting to success, submitting to error, or
\* error to idle by Try Again.
C5_OnlyListedTransitions ==
    [][submissionState' # submissionState
        => \/ /\ submissionState = "idle"
              /\ submissionState' = "submitting"
              /\ event'.op = "submit"
           \/ /\ submissionState = "submitting"
              /\ submissionState' \in {"success", "error"}
           \/ /\ submissionState = "error"
              /\ submissionState' = "idle"
              /\ event'.op = "tryAgain"]_vars

\* C6: a result is held exactly in the success state, where no error
\* message is held; the stored result is the value the call resolved with
\* and stays so; on entry to submitting neither a result nor a message is
\* held.
C6_ResultAndErrorExclusive ==
    /\ []((txHash # EmptyString) <=> (submissionState = "success"))
    /\ []((poolId # Null) <=> (submissionState = "success"))
    /\ [](submissionState = "success" => errorMessage = EmptyString)
    /\ [][/\ event'.op = "resolved"
             => /\ txHash' = event'.arg.txHash
                /\ poolId' = Some(event'.arg.poolId)
          /\ (submissionState = "success" /\ event'.op # "resolved")
             => UNCHANGED <<txHash, poolId>>
          /\ (submissionState # "submitting" /\ submissionState' = "submitting")
             => /\ txHash' = EmptyString
                /\ poolId' = Null
                /\ errorMessage' = EmptyString]_vars

\* C6 witness: the call resolved with {txHash: "tx1", poolId: 5} and the
\* page holds exactly that.
C6_Witness ==
    /\ event.op = "resolved"
    /\ event.arg = [txHash |-> <<"t", "x", "1">>, poolId |-> 5]
    /\ submissionState = "success"
    /\ txHash = <<"t", "x", "1">>
    /\ poolId = Some(5)

\* C7: once the state is success no step changes the submission state,
\* txHash or poolId or invokes createPool, and no call is outstanding that
\* could resolve late.
C7_SuccessIsTerminal ==
    /\ [](submissionState = "success" => pending = <<>>)
    /\ [][submissionState = "success"
            => UNCHANGED <<submissionState, txHash, poolId, pending>>]_vars

\* C7 witness: a submit was attempted after success.
C7_Witness ==
    /\ submissionState = "success"
    /\ event.op = "submit"
    /\ publicKey # Null

\* C8: when a createPool call fails with an error of message m, the state
\* becomes error and the stored message is the one the first matching rule
\* gives.
C8_FailureClassification ==
    [][(event'.op = "failed" /\ event'.arg.kind = "error")
        => /\ submissionState' = "error"
           /\ errorMessage' = ClassifiedMessage(event'.arg.message)]_vars

\* C8 witness: a message holding both "Transaction failed" and "User
\* rejected" was classified as a rejection.
C8_Witness ==
    /\ event.op = "failed"
    /\ event.arg = [kind |-> "error", message |-> RawTxUser]
    /\ submissionState = "error"
    /\ errorMessage = MsgRejected

\* C9 (as claimed): whatever value a createPool call fails with, the state
\* becomes error and a non-empty message is held.
C9_ClassificationTotal ==
    [][event'.op = "failed"
        => /\ submissionState' = "error"
           /\ errorMessage' # EmptyString]_vars

\* C10: Try Again in the error state sets the state to idle and empties the
\* message, leaves the form, the wallet identity, txHash and poolId as
\* they were and invokes createPool zero times.
C10_TryAgainFrame ==
    [][(submissionState = "error" /\ event'.op = "tryAgain")
        => /\ submissionState' = "idle"
           /\ errorMessage' = EmptyString
           /\ UNCHANGED <<formData, publicKey, txHash, poolId, pending>>]_vars

\* C10 witness: Try Again was taken from the error state with the form
\* filled in, and the form is still filled in.
C10_Witness ==
    /\ event.op = "tryAgain"
    /\ event.arg = "reset"
    /\ submissionState = "idle"
    /\ errorMessage = EmptyString
    /\ formData = ValidForm

\* C11: validation reports the message of the first violated rule in the
\* fixed order, whatever later rules are violated too, and accepts a form
\* that violates no rule.
C11_FirstViolatedRuleReported ==
    Validated
        => IF PassesAllRules(formData) THEN Accepted
           ELSE RejectedWith(RuleMessages[FirstViolatedRule(formData)])

\* C11 witness: a description that is blank and too long, with no amount
\* and no duration, was reported as a missing description.
C11_Witness ==
    /\ Validated
    /\ {i \in Rules : RuleViolated(i, formData)} = {2, 3, 8, 9}
    /\ errorMessage = MsgDescRequired

\* C12: the length limits are inclusive: with the other fields valid, a
\* description of 500 characters, a URL of 200 and an image hash of 100
\* are accepted, and one character more is rejected with the length
\* message of that field.
C12_LengthLimitsInclusive ==
    Validated
        => /\ OthersValid(formData, "description")
              => /\ Len(formData.description) = 500 => Accepted
                 /\ formData.description = Rep("d", 501)
                       => RejectedWith(MsgDescLength)
           /\ OthersValid(formData, "externalUrl")
              => /\ Len(formData.externalUrl) = 200 => Accepted
                 /\ Len(formData.externalUrl) = 201
                       => RejectedWith(MsgUrlLength)
           /\ OthersValid(formData, "imageHash")
              => /\ Len(formData.imageHash) = 100 => Accepted
                 /\ Len(formData.imageHash) = 101
                       => RejectedWith(MsgHashLength)

\* C12 witness: a description of exactly 500 characters was accepted.
C12_Witness ==
    /\ Accepted
    /\ OthersValid(formData, "description")
    /\ Len(formData.description) = 500

\* C13: with the other fields valid, the amounts "", "0" and "-5" are
\* rejected with the amount message and "0.0000001" is accepted; the
\* durations "", "0" and "-1" are rejected with the duration message.
C13_AmountAndDurationPositive ==
    Validated
        => /\ OthersValid(formData, "targetAmount")
              => /\ formData.targetAmount
                       \in {EmptyString, <<"0">>, <<"-", "5">>}
                    => RejectedWith(MsgAmount)
                 /\ formData.targetAmount
                       = <<"0", ".", "0", "0", "0", "0", "0", "0", "1">>
                    => Accepted
           /\ OthersValid(formData, "durationDays")
              => (formData.durationDays \in {EmptyString, <<"0">>, <<"-", "1">>}
                    => RejectedWith(MsgDuration))

\* C13 witness: the amount "0.0000001" was accepted.
C13_Witness ==
    /\ Accepted
    /\ formData =
         [ValidForm EXCEPT
            !.targetAmount = <<"0", ".", "0", "0", "0", "0", "0", "0", "1">>]

\* C14: a submit accepted at unix time T with a duration that parses to
\* the integer d passes createPool the deadline T + d * 86400; for "30"
\* that is T + 2592000.
C14_DeadlineFromDuration ==
    [][(Len(pending') > Len(pending) /\ ~parseInt(formData.durationDays).nan)
        => LET request == pending'[Len(pending')]
               T == event'.now[1]
               d == parseInt(formData.durationDays).mant
           IN  /\ request.deadline = Number(FALSE, T + d * 86400, 0)
               /\ formData.durationDays = <<"3", "0">>
                     => request.deadline.mant = T + 2592000]_vars

\* C14 witness: a form with duration "30" was accepted at time 1 and the
\* call carries the deadline 2592001.
C14_Witness ==
    /\ event.op = "submit"
    /\ event.arg = "accepted"
    /\ event.now = Some(1)
    /\ formData.durationDays = <<"3", "0">>
    /\ Len(pending) = 1
    /\ pending[1].deadline = Number(FALSE, 2592001, 0)

\* C15: the request passed to createPool carries the name, description,
\* externalUrl, imageHash and targetAmount of the form as it is when the
\* submit is accepted, which is the form validation passed; a field edit
\* changes no outstanding request and nothing of the submission.
C15_RequestIsFormSnapshot ==
    [][/\ Len(pending') > Len(pending)
          => LET request == pending'[Len(pending')]
             IN  /\ request.name = formData.name
                 /\ request.description = formData.description
                 /\ request.externalUrl = formData.externalUrl
                 /\ request.imageHash = formData.imageHash
                 /\ request.targetAmount = formData.targetAmount
                 /\ PassesAllRules(formData)
                 /\ SubSeq(pending', 1, Len(pending)) = pending
       /\ event'.op = "input"
          => UNCHANGED <<pending, submissionState, errorMessage, txHash,
                         poolId>>]_vars

\* C15 witness: a field edit was made while a call carrying the form's
\* name was outstanding.
C15_Witness ==
    /\ event.op = "input"
    /\ submissionState = "submitting"
    /\ Len(pending) = 1
    /\ pending[1].name = <<"P">>
    /\ pending[1].description = <<"d">>

\* C16: a call of createPool is made only by an accepted submit, one call
\* per submit, and a failing call is not made again: it leaves one call
\* fewer outstanding.
C16_NoAutomaticRetry ==
    [][/\ Len(pending') >= Len(pending) /\ pending' # pending
          => /\ event'.op = "submit"
             /\ event'.arg = "accepted"
             /\ Len(pending') = Len(pending) + 1
       /\ event'.op = "failed"
          => /\ Len(pending') = Len(pending) - 1
             /\ submissionState' = "error"]_vars

\* C16 witness: a call failed and none is outstanding.
C16_Witness ==
    /\ event.op = "failed"
    /\ submissionState = "error"
    /\ pending = <<>>

\* C17 (as claimed): from every state of the loaded page other than
\* success and submitting, steps of the user alone lead to submitting.
C17_RetryPossibleUnlessSuccess ==
    (PageLoaded /\ submissionState \notin {"success", "submitting"})
        => ENABLED UserProgress

\* C17 (amended): with every call settling, submitting is always followed
\* by success or error and is left by a resolution to success or a failure
\* to error only; from every idle or error state in which a wallet
\* identity is held, steps of the user alone lead to submitting, and no
\* step of the user changes whether an identity is held.
C17_NoFailureIsFatal ==
    /\ (submissionState = "submitting")
          ~> (submissionState \in {"success", "error"})
    /\ [][(submissionState = "submitting" /\ submissionState' # "submitting")
            => \/ event'.op = "resolved" /\ submissionState' = "success"
               \/ event'.op = "failed" /\ submissionState' = "error"]_vars
    /\ []((PageLoaded /\ publicKey # Null
             /\ submissionState \in {"idle", "error"})
            => ENABLED UserProgress)
    /\ [][/\ event'.op \in {"tryAgain", "input", "submit"}
             => UNCHANGED <<publicKey, isCheckingWallet>>
          /\ (submissionState # "submitting" /\ submissionState' = "submitting")
             => PageLoaded /\ publicKey # Null]_vars

\* C17 witness: a call failed, the page is in the error state with a wallet
\* identity held and an empty form, and the user can go on.
C17_Witness ==
    /\ event.op = "failed"
    /\ submissionState = "error"
    /\ publicKey # Null
    /\ Distance > 1
    /\ ENABLED UserProgress

\* C18: while the wallet query is outstanding no identity is held, nothing
\* else has happened and a submit or a connect has no effect; its answer is
\* stored as the identity and ends the loading state. The identity changes
\* only by that answer or by the answer to a connect callback, which runs
\* only after an approval; a cancelled connect leaves it as it is. No
\* wallet step changes the submission state, the message, the form, the
\* result or the outstanding calls.
C18_WalletSession ==
    /\ [](isCheckingWallet
            => /\ publicKey = Null
               /\ connects = 0
               /\ callbacks = 0
               /\ pending = <<>>
               /\ submissionState = "idle")
    /\ [][/\ (isCheckingWallet /\ event'.op \in {"submit", "connect"})
             => UNCHANGED <<publicKey, isCheckingWallet, formData,
                            submissionState, errorMessage, txHash, poolId,
                            connects, callbacks, pending>>
          /\ event'.op = "checkWallet"
             => /\ isCheckingWallet
                /\ ~isCheckingWallet'
                /\ publicKey' = event'.arg
          /\ publicKey' # publicKey
             => /\ event'.op \in {"checkWallet", "connected"}
                /\ publicKey' = event'.arg
          /\ event'.op = "connected"
             => /\ callbacks > 0
                /\ publicKey' = event'.arg
          /\ callbacks' > callbacks
             => event'.op = "approved" /\ connects' = connects - 1
          /\ event'.op = "cancelled"
             => UNCHANGED <<publicKey, callbacks>>
          /\ event'.op \in {"checkWallet", "connect", "approved", "cancelled",
                            "connected"}
             => UNCHANGED <<submissionState, errorMessage, formData, txHash,
                            poolId, pending>>]_vars

\* C18 witness: the query found no wallet, a connect was opened and
\* cancelled, and no identity is held.
C18_Witness ==
    /\ event.op = "cancelled"
    /\ PageLoaded
    /\ publicKey = Null
    /\ connects = 0
    /\ callbacks = 0

\* C19 (as claimed): while the state stays error the stored message stays
\* what the failed call left.
C19_ErrorMessageKept ==
    [][(submissionState = "error" /\ submissionState' = "error")
        => errorMessage' = errorMessage]_vars

\* C20 (as claimed): every request passed to createPool has a targetAmount
\* that parses to a number greater than 0 and a deadline that is an integer
\* greater than the time of the submit.
C20_RequestWellFormed ==
    [][Len(pending') > Len(pending)
        => LET request == pending'[Len(pending')]
           IN  /\ GreaterThanZero(parseFloat(request.targetAmount))
               /\ ~request.deadline.nan
               /\ ~request.deadline.neg
               /\ request.deadline.frac = 0
               /\ request.deadline.mant > event'.now[1]]_vars

====
